---- MODULE Spec2Model ----
(***************************************************************************)
(* Capture/trigger state machine of the dictation utility (dictate.py).    *)
(*                                                                         *)
(* Two threads share recording_flag and audio_q:                           *)
(*   - the keyboard listener thread, which runs on_press / on_release and  *)
(*     the closures _start_recording / _stop_and_transcribe they call;     *)
(*   - the audio driver thread, which runs audio_callback.                 *)
(* The listener's position is pc, the callback's position is cb_pc.  Each  *)
(* action is one step between two points where the other thread can run.   *)
(*                                                                         *)
(* Time is counted in hundredths of a second; audio in samples.            *)
(***************************************************************************)
EXTENDS Integers, Sequences, FiniteSets, TLC

\* ---------------------------------------------------------------- config
SAMPLE_RATE == 16000
MIN_SPEECH_SECS == 100
DOUBLE_TAP_WINDOW == 35
\* the literal 0.8 (seconds) of the audio-length gates, in tenths of a second
MIN_AUDIO_TENTHS == 8

\* ---------------------------------------------------------------- bounds
\* time.time() when the listener starts (any value beyond DOUBLE_TAP_WINDOW)
StartTime == 1000
\* the clock advances in steps of TickStep, TimeSteps times at most
TickStep == 25
TimeSteps == 4
\* number of frames the audio driver delivers in a run
MaxFrames == 3
\* the two block lengths (in samples) the driver delivers: SmallBlock and
\* twice SmallBlock
SmallBlock == 6400

MaxTime == StartTime + TickStep * TimeSteps
FrameSizes == {SmallBlock, 2 * SmallBlock}

VARIABLES
    now,                \* time.time()
    DOUBLE_TAP_ENABLED, \* WILLOW_DOUBLE_TAP, fixed at start-up
    recording_flag,     \* threading.Event
    audio_q,            \* queue.Queue of frames, head first
    pressed_time,       \* main(): time of the last arm
    last_tap_time,      \* main(): time of the last single tap, 0.0 if none
    latched_on,         \* main(): double-tap latch
    pc,                 \* listener thread: where it is
    duration,           \* _stop_and_transcribe: as read by the last stop, -1
                        \*   from an arming press until the stop reads it
    chunks,             \* _stop_and_transcribe: frames the last stop took
    raw_text,           \* _stop_and_transcribe: result of transcribe_buffer
    cb_pc,              \* audio thread: where it is
    cb_frame,           \* audio thread: the frame audio_callback is about to put
    next_id,            \* arrival number of the next frame
    key_held,           \* the hotkey is physically down
    \* ---- a record of what has happened (read by no action's guard)
    armed_by,           \* "none" | "hold" | "double_tap": the last KeyDown
                        \*   handled in Idle was outside / within the window
    since_arm,          \* hotkey events handled since then: "none" (never
                        \*   armed) | "down" (that KeyDown alone) | "up" (and
                        \*   its KeyUp) | "more"
    armed_at,           \* time.time() as that KeyDown read it
    q_at_arm,           \* audio_q when that KeyDown was handled
    first_id,           \* next_id when that KeyDown was handled: the frames
                        \*   audio_callback accepts from then on have this
                        \*   arrival number or a later one
    stop_from,          \* "none" | "release" | "unlatch": the handler that
                        \*   called _stop_and_transcribe since then
    q_at_stop,          \* audio_q when it was called
    drains,             \* draining loops completed since the last arm
    utterances,         \* sample counts handed to transcribe_buffer since the
                        \*   last arm
    sounds,             \* sounds played since the last arm, in order
    transcribed,        \* what the engine did with the audio handed to it
                        \*   since the last arm: "none" | "raise" | "empty" |
                        \*   "text"
    pasted              \* what paste_text_into_front_app did since the last
                        \*   arm, in order

vars == <<now, DOUBLE_TAP_ENABLED, recording_flag, audio_q, pressed_time,
          last_tap_time, latched_on, pc, duration, chunks, raw_text, cb_pc,
          cb_frame, next_id, key_held, armed_by, since_arm, armed_at, q_at_arm,
          first_id, stop_from, q_at_stop, drains, utterances, sounds,
          transcribed, pasted>>

\* what the listener thread owns besides pc
listener_state == <<pressed_time, last_tap_time, latched_on, duration, chunks,
                    raw_text>>
\* what the audio thread owns
audio_state == <<cb_pc, cb_frame, next_id>>
\* the record of the gesture
gesture == <<armed_by, since_arm, armed_at, q_at_arm, first_id>>
\* the record of the stop
stopped == <<stop_from, q_at_stop>>
\* the record of the cycle's effects
effects == <<drains, utterances, sounds>>
\* the record of the cycle's output
outputs == <<transcribed, pasted>>
history == <<gesture, stopped, effects, outputs>>

NoFrame == [id |-> 0, n |-> 0]

\* ---------------------------------------------------------------- helpers
RECURSIVE TotalSamples(_)
\* len(audio): np.concatenate(chunks) reduced to one channel
TotalSamples(s) ==
    IF s = <<>> THEN 0 ELSE Head(s).n + TotalSamples(Tail(s))

Ids(s) == {s[i].id : i \in 1..Len(s)}

IsPrefix(s, t) == Len(s) <= Len(t) /\ SubSeq(t, 1, Len(s)) = s

\* frames whose audio_q.put has completed
PutsDone == (next_id - 1) - (IF cb_pc = "put" THEN 1 ELSE 0)

\* on_press, line 336
IsDoubleTap(t) ==
    DOUBLE_TAP_ENABLED /\ (t - last_tap_time) <= DOUBLE_TAP_WINDOW

\* line 299 with <= for <
HoldTooShort_inclusive(d) == d <= MIN_SPEECH_SECS

\* line 299 with the gate never closing
HoldTooShort_never(d) == FALSE

\* _stop_and_transcribe, line 299
HoldTooShort(d) == d < MIN_SPEECH_SECS

\* lines 317-318 with the sample count compared to 0.8, not the seconds
AudioTooShort_samples(samples) == samples * 10 < MIN_AUDIO_TENTHS

\* _stop_and_transcribe, lines 317-318: audio_seconds < 0.8
AudioTooShort(samples) == samples * 10 < MIN_AUDIO_TENTHS * SAMPLE_RATE

\* ---------------------------------------------------------------- Init
Init ==
    /\ now = StartTime
    /\ DOUBLE_TAP_ENABLED \in BOOLEAN
    /\ recording_flag = FALSE
    /\ audio_q = <<>>
    /\ pressed_time = 0
    /\ last_tap_time = 0
    /\ latched_on = FALSE
    /\ pc = "idle"
    /\ duration = -1
    /\ chunks = <<>>
    /\ raw_text = ""
    /\ cb_pc = "idle"
    /\ cb_frame = NoFrame
    /\ next_id = 1
    /\ key_held = FALSE
    /\ armed_by = "none"
    /\ since_arm = "none"
    /\ armed_at = 0
    /\ q_at_arm = <<>>
    /\ stop_from = "none"
    /\ q_at_stop = <<>>
    /\ drains = 0
    /\ utterances = <<>>
    /\ sounds = <<>>
    /\ first_id = 1
    /\ transcribed = "none"
    /\ pasted = <<>>

\* ---------------------------------------------------------------- clock
Tick ==
    /\ now + TickStep <= MaxTime
    /\ now' = now + TickStep
    /\ UNCHANGED <<DOUBLE_TAP_ENABLED, recording_flag, audio_q, pc, key_held,
                   listener_state, audio_state, history>>

\* ---------------------------------------------------------------- audio thread
\* audio_callback, line 48: read the flag; a clear flag ends the callback
audio_callback_check ==
    /\ cb_pc = "idle"
    /\ IF recording_flag
       THEN /\ next_id <= MaxFrames
            /\ \E n \in FrameSizes : cb_frame' = [id |-> next_id, n |-> n]
            /\ next_id' = next_id + 1
            /\ cb_pc' = "put"
       ELSE UNCHANGED <<cb_frame, next_id, cb_pc>>
    /\ UNCHANGED <<now, DOUBLE_TAP_ENABLED, recording_flag, audio_q, pc,
                   key_held, listener_state, history>>

\* audio_callback, line 49: audio_q.put(indata.copy())
audio_callback_put ==
    /\ cb_pc = "put"
    /\ audio_q' = Append(audio_q, cb_frame)
    /\ cb_frame' = NoFrame
    /\ cb_pc' = "idle"
    /\ UNCHANGED <<now, DOUBLE_TAP_ENABLED, recording_flag, pc, key_held,
                   next_id, listener_state, history>>

\* ---------------------------------------------------------------- listener thread
\* the record of a KeyDown: one handled in Idle opens a new cycle
NoteKeyDown ==
    IF ~recording_flag /\ ~latched_on
    THEN /\ armed_by' = IF DOUBLE_TAP_ENABLED
                           /\ now - last_tap_time <= DOUBLE_TAP_WINDOW
                        THEN "double_tap" ELSE "hold"
         /\ since_arm' = "down"
         /\ armed_at' = now
         /\ q_at_arm' = audio_q
         /\ first_id' = next_id
         /\ drains' = 0
         /\ utterances' = <<>>
         /\ sounds' = <<>>
         /\ transcribed' = "none"
         /\ pasted' = <<>>
    ELSE /\ since_arm' = IF since_arm = "none" THEN "none" ELSE "more"
         /\ UNCHANGED <<armed_by, armed_at, q_at_arm, first_id, effects,
                        outputs>>

\* the record of a KeyUp
NoteKeyUp ==
    /\ since_arm' = CASE since_arm = "none" -> "none"
                      [] since_arm = "down" -> "up"
                      [] OTHER -> "more"
    /\ UNCHANGED <<armed_by, armed_at, q_at_arm, first_id, effects, outputs>>

\* a handler calls _start_recording()
call_start_recording ==
    /\ pc' = "start_clear"
    /\ duration' = -1
    /\ stop_from' = "none"
    /\ q_at_stop' = <<>>

\* a handler calls _stop_and_transcribe()
call_stop_and_transcribe(who) ==
    /\ pc' = "stop_clear"
    /\ duration' = duration
    /\ stop_from' = who
    /\ q_at_stop' = audio_q

\* a handler returns without a call
return_to_listener ==
    /\ pc' = "idle"
    /\ UNCHANGED <<duration, stop_from, q_at_stop>>

\* lines 332-348 without line 338: a double-tap leaves last_tap_time as it was
on_press_keeps_tap ==
    /\ pc = "idle"
    /\ key_held' = TRUE
    /\ NoteKeyDown
    /\ IF IsDoubleTap(now)
       THEN /\ last_tap_time' = last_tap_time
            /\ latched_on' = ~latched_on
            /\ IF ~latched_on /\ ~recording_flag
               THEN call_start_recording
               ELSE IF latched_on /\ recording_flag
                    THEN call_stop_and_transcribe("unlatch")
                    ELSE return_to_listener
       ELSE /\ last_tap_time' = now
            /\ latched_on' = latched_on
            /\ IF ~recording_flag
               THEN call_start_recording
               ELSE return_to_listener
    /\ UNCHANGED <<now, DOUBLE_TAP_ENABLED, recording_flag, audio_q,
                   pressed_time, chunks, raw_text, audio_state>>

\* lines 332-348 without lines 342-343: an unlatching double-tap stops nothing
on_press_unlatch_keeps_recording ==
    /\ pc = "idle"
    /\ key_held' = TRUE
    /\ NoteKeyDown
    /\ IF IsDoubleTap(now)
       THEN /\ last_tap_time' = 0
            /\ latched_on' = ~latched_on
            /\ IF ~latched_on /\ ~recording_flag
               THEN call_start_recording
               ELSE return_to_listener
       ELSE /\ last_tap_time' = now
            /\ latched_on' = latched_on
            /\ IF ~recording_flag
               THEN call_start_recording
               ELSE return_to_listener
    /\ UNCHANGED <<now, DOUBLE_TAP_ENABLED, recording_flag, audio_q,
                   pressed_time, chunks, raw_text, audio_state>>

\* lines 332-348 without the test of line 347: a single press always calls
\* _start_recording
on_press_single_rearms ==
    /\ pc = "idle"
    /\ key_held' = TRUE
    /\ NoteKeyDown
    /\ IF IsDoubleTap(now)
       THEN /\ last_tap_time' = 0
            /\ latched_on' = ~latched_on
            /\ IF ~latched_on /\ ~recording_flag
               THEN call_start_recording
               ELSE IF latched_on /\ recording_flag
                    THEN call_stop_and_transcribe("unlatch")
                    ELSE return_to_listener
       ELSE /\ last_tap_time' = now
            /\ latched_on' = latched_on
            /\ call_start_recording
    /\ UNCHANGED <<now, DOUBLE_TAP_ENABLED, recording_flag, audio_q,
                   pressed_time, chunks, raw_text, audio_state>>

\* lines 332-348 without the flag test of line 340: a latching double-tap
\* always calls _start_recording
on_press_latch_rearms ==
    /\ pc = "idle"
    /\ key_held' = TRUE
    /\ NoteKeyDown
    /\ IF IsDoubleTap(now)
       THEN /\ last_tap_time' = 0
            /\ latched_on' = ~latched_on
            /\ IF ~latched_on
               THEN call_start_recording
               ELSE IF latched_on /\ recording_flag
                    THEN call_stop_and_transcribe("unlatch")
                    ELSE return_to_listener
       ELSE /\ last_tap_time' = now
            /\ latched_on' = latched_on
            /\ IF ~recording_flag
               THEN call_start_recording
               ELSE return_to_listener
    /\ UNCHANGED <<now, DOUBLE_TAP_ENABLED, recording_flag, audio_q,
                   pressed_time, chunks, raw_text, audio_state>>

\* on_press(HOLD_KEY), lines 332-348, up to the call it makes (if any)
on_press ==
    /\ pc = "idle"
    /\ key_held' = TRUE
    /\ NoteKeyDown
    /\ IF IsDoubleTap(now)
       THEN /\ last_tap_time' = 0
            /\ latched_on' = ~latched_on
            /\ IF ~latched_on /\ ~recording_flag
               THEN call_start_recording
               ELSE IF latched_on /\ recording_flag
                    THEN call_stop_and_transcribe("unlatch")
                    ELSE return_to_listener
       ELSE /\ last_tap_time' = now
            /\ latched_on' = latched_on
            /\ IF ~recording_flag
               THEN call_start_recording
               ELSE return_to_listener
    /\ UNCHANGED <<now, DOUBLE_TAP_ENABLED, recording_flag, audio_q,
                   pressed_time, chunks, raw_text, audio_state>>

\* lines 350-356 without the test of latched_on
on_release_unlatched ==
    /\ pc = "idle"
    /\ key_held
    /\ key_held' = FALSE
    /\ NoteKeyUp
    /\ IF recording_flag
       THEN call_stop_and_transcribe("release")
       ELSE return_to_listener
    /\ UNCHANGED <<now, DOUBLE_TAP_ENABLED, recording_flag, audio_q,
                   pressed_time, last_tap_time, latched_on, chunks, raw_text,
                   audio_state>>

\* on_release(HOLD_KEY), lines 350-356, up to the call it makes (if any)
on_release ==
    /\ pc = "idle"
    /\ key_held
    /\ key_held' = FALSE
    /\ NoteKeyUp
    /\ IF recording_flag /\ ~latched_on
       THEN call_stop_and_transcribe("release")
       ELSE return_to_listener
    /\ UNCHANGED <<now, DOUBLE_TAP_ENABLED, recording_flag, audio_q,
                   pressed_time, last_tap_time, latched_on, chunks, raw_text,
                   audio_state>>

\* _start_recording, lines 286-290: one turn of the clearing loop
start_clear ==
    /\ pc = "start_clear"
    /\ IF audio_q = <<>>
       THEN pc' = "start_set" /\ audio_q' = audio_q
       ELSE pc' = "start_clear" /\ audio_q' = Tail(audio_q)
    /\ UNCHANGED <<now, DOUBLE_TAP_ENABLED, recording_flag, key_held,
                   listener_state, audio_state, history>>

\* _start_recording, line 291: recording_flag.set()
start_set ==
    /\ pc = "start_set"
    /\ recording_flag' = TRUE
    /\ pc' = "start_time"
    /\ UNCHANGED <<now, DOUBLE_TAP_ENABLED, audio_q, key_held,
                   listener_state, audio_state, history>>

\* _start_recording, lines 292-293: pressed_time = time.time(); play_sound
start_time ==
    /\ pc = "start_time"
    /\ pressed_time' = now
    /\ sounds' = Append(sounds, "start")
    /\ pc' = "idle"
    /\ UNCHANGED <<now, DOUBLE_TAP_ENABLED, recording_flag, audio_q, key_held,
                   last_tap_time, latched_on, duration, chunks, raw_text,
                   audio_state, gesture, stopped, drains, utterances,
                   outputs>>

\* _stop_and_transcribe, line 297: recording_flag.clear()
stop_clear ==
    /\ pc = "stop_clear"
    /\ recording_flag' = FALSE
    /\ pc' = "stop_gate"
    /\ UNCHANGED <<now, DOUBLE_TAP_ENABLED, audio_q, key_held,
                   listener_state, audio_state, history>>

\* _stop_and_transcribe, lines 298-301: the hold gate
stop_gate ==
    /\ pc = "stop_gate"
    /\ duration' = now - pressed_time
    /\ IF HoldTooShort(now - pressed_time)
       THEN pc' = "idle"
       ELSE pc' = "stop_drain"
    /\ chunks' = <<>>
    /\ raw_text' = ""
    /\ UNCHANGED <<now, DOUBLE_TAP_ENABLED, recording_flag, audio_q, key_held,
                   pressed_time, last_tap_time, latched_on, audio_state,
                   history>>

\* lines 302-307 with "if" for "while": one chunk is taken
stop_drain_once ==
    /\ pc = "stop_drain"
    /\ pc' = "stop_assemble"
    /\ drains' = drains + 1
    /\ IF audio_q = <<>>
       THEN UNCHANGED <<audio_q, chunks>>
       ELSE /\ chunks' = Append(chunks, Head(audio_q))
            /\ audio_q' = Tail(audio_q)
    /\ UNCHANGED <<now, DOUBLE_TAP_ENABLED, recording_flag, key_held,
                   pressed_time, last_tap_time, latched_on, duration, raw_text,
                   audio_state, gesture, stopped, utterances, sounds,
                   outputs>>

\* _stop_and_transcribe, lines 302-307: one turn of the draining loop
stop_drain ==
    /\ pc = "stop_drain"
    /\ IF audio_q = <<>>
       THEN /\ pc' = "stop_assemble"
            /\ drains' = drains + 1
            /\ UNCHANGED <<audio_q, chunks>>
       ELSE /\ pc' = "stop_drain"
            /\ chunks' = Append(chunks, Head(audio_q))
            /\ audio_q' = Tail(audio_q)
            /\ UNCHANGED drains
    /\ UNCHANGED <<now, DOUBLE_TAP_ENABLED, recording_flag, key_held,
                   pressed_time, last_tap_time, latched_on, duration, raw_text,
                   audio_state, gesture, stopped, utterances, sounds,
                   outputs>>

\* _stop_and_transcribe, lines 308-322: no chunks, the audio assembled, the
\* 0.8 s gate, the stop sound
stop_assemble ==
    /\ pc = "stop_assemble"
    /\ IF chunks = <<>> \/ AudioTooShort(TotalSamples(chunks))
       THEN pc' = "idle" /\ UNCHANGED <<sounds, utterances>>
       ELSE /\ pc' = "stop_transcribe"
            /\ sounds' = Append(sounds, "stop")
            /\ utterances' = Append(utterances, TotalSamples(chunks))
    /\ UNCHANGED <<now, DOUBLE_TAP_ENABLED, recording_flag, audio_q, key_held,
                   listener_state, audio_state, gesture, stopped, drains,
                   outputs>>

\* transcribe_buffer, lines 76-104, and the try around its call, lines
\* 323-327: engine is what the model does with the audio ("raise": it fails;
\* "empty": it finds no speech; "text": it returns text)
transcribe_buffer(samples, engine) ==
    IF samples = 0 \/ samples * 10 < MIN_AUDIO_TENTHS * SAMPLE_RATE
                   \/ engine # "text"
    THEN ""
    ELSE "text"

\* lines 323-327 without the try: a failure of the engine leaves
\* _stop_and_transcribe where it is, and nothing after line 324 runs
stop_transcribe_uncaught ==
    /\ pc = "stop_transcribe"
    /\ \E engine \in {"raise", "empty", "text"} :
           /\ raw_text' = transcribe_buffer(TotalSamples(chunks), engine)
           /\ transcribed' = engine
           /\ pc' = IF engine = "raise" THEN "stop_transcribe" ELSE "stop_paste"
    /\ UNCHANGED <<now, DOUBLE_TAP_ENABLED, recording_flag, audio_q, key_held,
                   pressed_time, last_tap_time, latched_on, duration, chunks,
                   audio_state, gesture, stopped, effects, pasted>>

\* _stop_and_transcribe, lines 323-327
stop_transcribe ==
    /\ pc = "stop_transcribe"
    /\ \E engine \in {"raise", "empty", "text"} :
           /\ raw_text' = transcribe_buffer(TotalSamples(chunks), engine)
           /\ transcribed' = engine
    /\ pc' = "stop_paste"
    /\ UNCHANGED <<now, DOUBLE_TAP_ENABLED, recording_flag, audio_q, key_held,
                   pressed_time, last_tap_time, latched_on, duration, chunks,
                   audio_state, gesture, stopped, effects, pasted>>

\* format_transcript, lines 180-187: an empty transcript stays empty; what
\* is left of another one after the fillers are removed is text or nothing
format_transcript(text, keeps) ==
    IF text = "" THEN "" ELSE IF keeps THEN "text" ELSE ""

\* WILLOW_PRESS_ENTER=1, line 30: the configuration that sends Enter
PRESS_ENTER == TRUE

\* lines 197-225 without lines 198-199
paste_text_unchecked(text, copy_ok, allowed, key_ok, enter_ok) ==
    <<IF copy_ok THEN "copy" ELSE "copy_failed">>
    \o (IF ~allowed THEN <<>>
        ELSE <<IF key_ok THEN "paste" ELSE "paste_failed">>
             \o (IF PRESS_ENTER
                 THEN <<IF enter_ok THEN "enter" ELSE "enter_failed">>
                 ELSE <<>>))

\* paste_text_into_front_app, lines 197-225: what it does, in order; each of
\* pbcopy, the Cmd+V keystroke and the Enter keystroke succeeds or fails, and
\* _is_front_app_allowed (lines 245-255) allows the front application or not
paste_text_into_front_app(text, copy_ok, allowed, key_ok, enter_ok) ==
    IF text = "" THEN <<>>
    ELSE <<IF copy_ok THEN "copy" ELSE "copy_failed">>
         \o (IF ~allowed THEN <<>>
             ELSE <<IF key_ok THEN "paste" ELSE "paste_failed">>
                  \o (IF PRESS_ENTER
                      THEN <<IF enter_ok THEN "enter" ELSE "enter_failed">>
                      ELSE <<>>))

\* _stop_and_transcribe, lines 328-330: format, paste, and return
stop_paste ==
    /\ pc = "stop_paste"
    /\ \E keeps, copy_ok, allowed, key_ok, enter_ok \in BOOLEAN :
           pasted' = paste_text_into_front_app(
                         format_transcript(raw_text, keeps),
                         copy_ok, allowed, key_ok, enter_ok)
    /\ pc' = "idle"
    /\ UNCHANGED <<now, DOUBLE_TAP_ENABLED, recording_flag, audio_q, key_held,
                   listener_state, audio_state, gesture, stopped, effects,
                   transcribed>>

Next ==
    \/ Tick
    \/ audio_callback_check
    \/ audio_callback_put
    \/ on_press
    \/ on_release
    \/ start_clear
    \/ start_set
    \/ start_time
    \/ stop_clear
    \/ stop_gate
    \/ stop_drain
    \/ stop_assemble
    \/ stop_transcribe
    \/ stop_paste

Spec == Init /\ [][Next]_vars

\* ---------------------------------------------------------------- states
Idle == ~recording_flag /\ ~latched_on
Recording == recording_flag /\ ~latched_on
Latched == recording_flag /\ latched_on

TypeOK ==
    /\ now \in StartTime..MaxTime
    /\ pc \in {"idle", "start_clear", "start_set", "start_time", "stop_clear",
               "stop_gate", "stop_drain", "stop_assemble", "stop_transcribe",
               "stop_paste"}
    /\ cb_pc \in {"idle", "put"}
    /\ Len(audio_q) <= MaxFrames
    /\ Idle \/ Recording \/ Latched \/ pc # "idle"

\* ---------------------------------------------------------------- claims
\* the listener is inside _stop_and_transcribe after its draining loop
AfterDrain == pc \in {"stop_assemble", "stop_transcribe", "stop_paste"}

\* the last KeyDown handled in Idle was a single press, and nothing but its
\* KeyUp has been handled since
CleanHold == armed_by = "hold" /\ since_arm \in {"down", "up"}

\* C1: a hold armed by a single press (not a double-tap) and ended by its
\* KeyUp, with no other hotkey event in between, whose duration as the stop
\* reads it is >= MIN_SPEECH_SECS, has its buffer drained exactly once: not
\* before the KeyUp is handled, once when its stop has run the draining loop,
\* and never a second time before the next arm.
C1_HoldDrainedOnceAtRelease ==
    CleanHold =>
        /\ drains <= 1
        /\ (since_arm = "down" => drains = 0 /\ stop_from = "none")
        /\ (since_arm = "up" => stop_from = "release")
        /\ (since_arm = "up" /\ pc \in {"stop_clear", "stop_gate", "stop_drain"}
                => drains = 0)
        /\ (since_arm = "up" /\ duration >= MIN_SPEECH_SECS
                => /\ stop_from = "release"
                   /\ pc \in {"stop_drain", "stop_assemble", "stop_transcribe",
                              "stop_paste", "idle"}
                   /\ (pc # "stop_drain" => drains = 1))

\* a hold of exactly MIN_SPEECH_SECS or more was released and drained once
C1_Witness ==
    /\ CleanHold /\ since_arm = "up" /\ stop_from = "release"
    /\ duration = MIN_SPEECH_SECS
    /\ pc = "idle" /\ drains = 1 /\ chunks # <<>>

\* C2: a stop that reads a duration shorter than MIN_SPEECH_SECS emits
\* nothing: the draining loop does not run, nothing is handed to
\* transcribe_buffer, no text is produced, and the listener is back in Idle
\* (flag clear, not latched) with no further step of the stop.
C2_ShortStopEmitsNothing ==
    (duration >= 0 /\ duration < MIN_SPEECH_SECS) =>
        /\ pc = "idle"
        /\ Idle
        /\ stop_from # "none"
        /\ drains = 0
        /\ utterances = <<>>
        /\ chunks = <<>>
        /\ raw_text = ""
        /\ sounds = <<"start">>

\* a short stop that left captured frames behind
C2_Witness ==
    /\ duration >= 0 /\ duration < MIN_SPEECH_SECS
    /\ stop_from = "release"
    /\ q_at_stop # <<>>

\* C3: with double-tap enabled, a KeyDown handled in Idle within
\* DOUBLE_TAP_WINDOW of last_tap_time latches: latched_on is set and
\* last_tap_time cleared at once, _start_recording runs (the frames queued
\* before it are removed, the flag is set, pressed_time is read no earlier than
\* the press), and neither the handler's return nor the KeyUp that follows
\* clears the flag or the latch.
C3_DoubleTapLatchesAndArms ==
    (armed_by = "double_tap" /\ since_arm \in {"down", "up"}) =>
        /\ DOUBLE_TAP_ENABLED
        /\ latched_on
        /\ last_tap_time = 0
        /\ stop_from = "none"
        /\ pc \in {"start_clear", "start_set", "start_time", "idle"}
        /\ (pc \in {"start_time", "idle"} => recording_flag)
        /\ (pc \in {"start_set", "start_time", "idle"}
                => Ids(q_at_arm) \cap Ids(audio_q) = {})
        /\ (pc = "idle" => pressed_time >= armed_at /\ pressed_time <= now)
        /\ (since_arm = "up" => pc = "idle")

\* latched by a double-tap that found frames to clear, the key released, and
\* a frame recorded after the release
C3_Witness ==
    /\ armed_by = "double_tap" /\ since_arm = "up"
    /\ q_at_arm # <<>>
    /\ ~key_held /\ Latched /\ pc = "idle"
    /\ audio_q # <<>>

\* C4 (as claimed): when the stop called by an unlatching double-tap has
\* returned, the flag is clear, the state is Idle and none of the frames that
\* were buffered is left in the buffer.
C4_UnlatchDisarmsAndDrains ==
    (stop_from = "unlatch" /\ pc = "idle") =>
        /\ Idle
        /\ Ids(q_at_stop) \cap Ids(audio_q) = {}

\* C5: a KeyUp handled while Latched changes nothing: the latch, the flag, the
\* buffer, last_tap_time and pressed_time stay, no stop is called and nothing
\* is drained.
C5_ReleaseWhileLatchedIsNoop ==
    [][(pc = "idle" /\ key_held /\ ~key_held' /\ Latched)
          => /\ pc' = "idle"
             /\ UNCHANGED <<recording_flag, latched_on, audio_q, last_tap_time,
                            pressed_time, duration, chunks, stop_from, drains,
                            utterances, sounds>>]_vars

\* the key was released while latched, with frames in the buffer
C5_Witness ==
    /\ Latched /\ ~key_held /\ pc = "idle"
    /\ since_arm \in {"up", "more"}
    /\ audio_q # <<>>

\* C6: when the draining loop of a stop that passed the hold gate has
\* returned, the frames that were in the buffer when the stop began are the
\* first of the returned sequence, the returned frames are in arrival order,
\* each of them was put before the loop returned, and none of them is in the
\* buffer or still to be put.
C6_DrainCutPoint ==
    AfterDrain =>
        /\ IsPrefix(q_at_stop, chunks)
        /\ \A i \in 1..Len(chunks) : \A j \in 1..Len(chunks) :
               i < j => chunks[i].id < chunks[j].id
        /\ \A i \in 1..Len(chunks) : chunks[i].id <= PutsDone
        /\ Ids(chunks) \cap Ids(audio_q) = {}
        /\ cb_frame.id \notin Ids(chunks)

\* a drain that returned frames put before the stop, followed by one put
\* while it ran, and then a put after it returned
C6_Witness ==
    /\ AfterDrain
    /\ Len(q_at_stop) >= 1
    /\ Len(chunks) > Len(q_at_stop)
    /\ audio_q # <<>>

\* C7 (as claimed): at the step of _start_recording that sets the flag, the
\* buffer is empty.
C7_ArmYieldsEmptyBuffer ==
    [][(pc = "start_set" /\ pc' = "start_time") => audio_q' = <<>>]_vars

\* C8 (as claimed): once a stop has returned, and until the next arm, the
\* flag is clear and the buffer is empty.
C8_EmptyAfterStop ==
    (stop_from # "none" /\ pc = "idle") =>
        /\ ~recording_flag
        /\ audio_q = <<>>

\* C9 (as claimed): every put of audio_callback happens while the flag is set.
C9_PutOnlyWhileArmed ==
    [][Len(audio_q') > Len(audio_q) => recording_flag]_vars

\* C10: every audio handed to transcribe_buffer holds at least 0.8 s of
\* samples, however long the hold was and however few frames arrived.
C10_NoShortUtterance ==
    /\ \A i \in 1..Len(utterances) :
           utterances[i] * 10 >= MIN_AUDIO_TENTHS * SAMPLE_RATE
    /\ (pc \in {"stop_transcribe", "stop_paste"}
            => /\ utterances = <<TotalSamples(chunks)>>
               /\ TotalSamples(chunks) * 10 >= MIN_AUDIO_TENTHS * SAMPLE_RATE)

\* a hold long enough for the hold gate whose frames, shorter than 0.8 s,
\* were dropped
C10_Witness ==
    /\ pc = "idle" /\ duration >= MIN_SPEECH_SECS /\ drains = 1
    /\ chunks # <<>>
    /\ TotalSamples(chunks) * 10 < MIN_AUDIO_TENTHS * SAMPLE_RATE
    /\ utterances = <<>>

\* a step in which the listener handles a KeyDown: of the steps from
\* pc = "idle" that change anything, on_press is the only one that leaves the
\* clock, the buffer and the audio thread alone and has the key down after it
KeyDownStep ==
    /\ pc = "idle"
    /\ key_held'
    /\ UNCHANGED <<now, audio_q, audio_state>>

\* the listener is inside _stop_and_transcribe
InStop ==
    pc \in {"stop_clear", "stop_gate", "stop_drain", "stop_assemble",
            "stop_transcribe", "stop_paste"}

\* C11: whatever the engine and the paste do with an utterance (the engine
\* fails, finds nothing or returns text; each of pbcopy, Cmd+V and Enter
\* succeeds or fails; the front application is allowed or not), the stop goes
\* on to its return with the flag clear and the latch off, and the KeyDown
\* handled after it opens a new cycle by calling _start_recording, which
\* arms as the first one did: the frames queued before are removed, the flag
\* is set, pressed_time is read no earlier than the press and the start sound
\* is played.
C11_DownstreamLeavesIdle ==
    /\ [](utterances # <<>>
            => /\ pc \in {"stop_transcribe", "stop_paste", "idle"}
               /\ Idle
               /\ (pc = "stop_paste" => transcribed # "none")
               /\ (pc = "stop_transcribe" => transcribed = "none"))
    /\ []((since_arm = "down" /\ pc = "idle")
            => /\ recording_flag
               /\ pressed_time >= armed_at
               /\ Ids(q_at_arm) \cap Ids(audio_q) = {}
               /\ sounds = <<"start">>)
    /\ [][(utterances # <<>> /\ KeyDownStep)
            => /\ pc' = "start_clear"
               /\ since_arm' = "down"
               /\ utterances' = <<>>]_vars
    /\ [][(pc = "stop_transcribe" /\ pc' # pc) => pc' = "stop_paste"]_vars
    /\ [][(pc = "stop_paste" /\ pc' # pc) => pc' = "idle"]_vars

\* text was transcribed, pbcopy and the Cmd+V keystroke both failed, and the
\* stop has returned to Idle
C11_Witness ==
    /\ pc = "idle" /\ Idle
    /\ utterances # <<>>
    /\ transcribed = "text"
    /\ Len(pasted) >= 2
    /\ pasted[1] = "copy_failed" /\ pasted[2] = "paste_failed"

\* C12: when the engine fails on an utterance, the transcript is empty,
\* nothing is copied to the clipboard, no paste keystroke and no Enter are
\* sent, the utterance is handed to the engine once only, and the stop
\* returns to Idle.
C12_FailedTranscriptionNoOutput ==
    transcribed = "raise" =>
        /\ raw_text = ""
        /\ pasted = <<>>
        /\ Len(utterances) = 1
        /\ pc \in {"stop_paste", "idle"}
        /\ Idle

\* the engine failed and the stop has returned
C12_Witness ==
    /\ transcribed = "raise"
    /\ pc = "idle"
    /\ stop_from # "none"

\* C13 (as claimed): while a stop is being processed, the listener can
\* handle a new KeyDown.
C13_StopDoesNotBlockListener ==
    InStop => ENABLED on_press

\* C14 (as claimed): a KeyDown handled in Recording leaves the state
\* Recording, with no call made.
C14_RepeatIgnoredInRecording ==
    [][(Recording /\ KeyDownStep)
          => /\ pc' = "idle"
             /\ recording_flag' /\ ~latched_on']_vars

\* C15 (as claimed): while Latched by a double-tap, a KeyDown within
\* DOUBLE_TAP_WINDOW of that double-tap calls the stop and takes the latch off.
C15_PressAfterLatchTapDisarms ==
    [][(/\ Latched
        /\ armed_by = "double_tap"
        /\ DOUBLE_TAP_ENABLED
        /\ now - armed_at <= DOUBLE_TAP_WINDOW
        /\ KeyDownStep)
          => /\ pc' = "stop_clear"
             /\ ~latched_on']_vars

\* C15 (amended): while Latched, a KeyDown within DOUBLE_TAP_WINDOW of
\* last_tap_time (the time of the last press that was not a double-tap; the
\* tap that toggled the latch cleared it) takes the latch off, clears
\* last_tap_time and calls _stop_and_transcribe, whose first step clears the
\* flag: the state is Idle from then until the next arm.
C15_DoubleTapWhileLatchedDisarms ==
    /\ [][(/\ Latched
           /\ DOUBLE_TAP_ENABLED
           /\ now - last_tap_time <= DOUBLE_TAP_WINDOW
           /\ KeyDownStep)
             => /\ pc' = "stop_clear"
                /\ stop_from' = "unlatch"
                /\ ~latched_on'
                /\ last_tap_time' = 0]_vars
    /\ []((stop_from = "unlatch" /\ pc # "stop_clear") => Idle)
    /\ []((stop_from = "unlatch" /\ pc = "stop_clear")
            => recording_flag /\ ~latched_on)

\* a recording latched by a double-tap was ended by a later double-tap, and
\* the stop has returned
C15_Witness ==
    /\ armed_by = "double_tap"
    /\ stop_from = "unlatch"
    /\ pc = "idle" /\ Idle

\* C16: while Latched, a KeyDown that is not a double-tap (double-tap disabled,
\* or later than DOUBLE_TAP_WINDOW after last_tap_time) sets last_tap_time to
\* the time of the press and changes nothing else: no call is made, the latch
\* and the flag stay set, the buffer and pressed_time are as they were.
C16_SinglePressWhileLatched ==
    [][(/\ Latched
        /\ ~(DOUBLE_TAP_ENABLED /\ now - last_tap_time <= DOUBLE_TAP_WINDOW)
        /\ KeyDownStep)
          => /\ last_tap_time' = now
             /\ pc' = "idle"
             /\ recording_flag' /\ latched_on'
             /\ UNCHANGED <<audio_q, pressed_time, duration, chunks,
                            stop_from, drains, utterances, sounds>>]_vars

\* a single press was handled while latched, with frames in the buffer
C16_Witness ==
    /\ Latched /\ pc = "idle"
    /\ last_tap_time = now
    /\ audio_q # <<>>

\* C17: _start_recording is called from Idle only: a KeyDown handled while
\* the flag is set calls no _start_recording and leaves the buffer and
\* pressed_time as they were, and the clearing loop and the flag's setting
\* run with the flag clear.
C17_ArmOnlyFromIdle ==
    /\ [][(recording_flag /\ KeyDownStep)
             => /\ pc' # "start_clear"
                /\ audio_q' = audio_q
                /\ pressed_time' = pressed_time]_vars
    /\ [][(pc # "start_clear" /\ pc' = "start_clear") => Idle]_vars
    /\ [](pc \in {"start_clear", "start_set"} => ~recording_flag)

\* a second KeyDown was handled in Recording, and the frames captured before
\* it are still in the buffer
C17_Witness ==
    /\ Recording /\ pc = "idle"
    /\ since_arm = "more"
    /\ audio_q # <<>>
    /\ pressed_time = armed_at

\* C18 (as claimed): when a stop has returned, the stop sound has been played
\* after the start sound.
C18_EveryDisarmPlaysStop ==
    (stop_from # "none" /\ pc = "idle") => sounds = <<"start", "stop">>

\* C19: whenever the listener is between two handlers, latched_on implies
\* that the flag is set: the pair is Idle, Recording or Latched.
C19_LatchedImpliesFlag ==
    pc = "idle" => (Idle \/ Recording \/ Latched)

\* a recording latched from Recording, its KeyUp handled, still latched
C19_Witness ==
    /\ pc = "idle" /\ Latched /\ ~key_held
    /\ armed_by = "hold"

\* C20 (as claimed): every frame the draining loop returned was accepted by
\* audio_callback after the KeyDown that armed the cycle.
C20_NoFrameOfEarlierCycle ==
    AfterDrain => \A i \in 1..Len(chunks) : chunks[i].id >= first_id

====
